---- MODULE Spec2Model ----
(***************************************************************************)
(* Model of src/main.py: SupermercadoComAssistente.                        *)
(*                                                                         *)
(* The program is a Tkinter window that pumps one asyncio event loop.      *)
(* Every press of the start button creates one executar_assistente task.   *)
(* Tasks are coroutines: a task runs without interruption until it reaches *)
(* an await that suspends it.  The variable `running` names the task that  *)
(* holds the event loop; GUI callbacks (start button, window close) run    *)
(* only between loop iterations, when no task is running.                  *)
(***************************************************************************)
EXTENDS Integers, Sequences, FiniteSets, TLC

\* ------------------------------------------------------------------ bounds

\* Grid of the main specification (the program uses 18 x 15).
Largura == 5
Altura == 4
\* Number of times the start button is pressed.
MaxTasks == 3
\* Number of phrases the recognizer returns over a run.
MaxComandos == 2
\* Number of failures the collaborators (synthesis, playback, file system)
\* inject over a run.
MaxFalhas == 2
\* Number of external events of a run: button presses, recognized phrases
\* and injected failures together.
MaxEventos == 4
\* Number of distinct temp file names in use at the same time.
MaxArquivos == 4
\* Largest grid side of the path-search specification.
MaxLado == 3
\* Largest number of cells of a grid of the guidance-cycle specification.
MaxCelulas == 6
\* Largest number of words of a phrase of the interpretation specification.
MaxPalavras == 3

Tasks == 1..MaxTasks
Arquivos == 1..MaxArquivos
NoTask == 0
NoFile == 0

\* ------------------------------------------------------------- the state

VARIABLES
  iniciado,       \* iniciar() has run: the map is set up and mainloop runs
  closed,         \* on_closing ran to its end: window destroyed, loop closed
  largura,        \* self.largura
  altura,         \* self.altura
  prateleiras,    \* self.prateleiras: set of obstacle cells
  posicao_atual,  \* self.posicao_atual
  locked,         \* self.audio_lock._locked
  waiters,        \* self.audio_lock._waiters, oldest first
  arquivos_temp,  \* self.arquivos_temp
  disk,           \* temp files that exist on local storage
  mixer,          \* pygame.mixer: [init, file, busy, stuck]
  task,           \* per task: the coroutine's position and locals
  running,        \* the task holding the event loop, or NoTask
  comandos,       \* phrases recognized so far
  falhas,         \* failures injected so far
  fila,           \* history: tasks that called speak and have not started
  abandonados,    \* history: files whose one removal attempt raised
  redraws,        \* history: the position drawn by the last desenhar_mapa
  sweep           \* history: the last on_closing call, [tracked, tried, done]

vars == <<iniciado, closed, largura, altura, prateleiras, posicao_atual,
          locked, waiters, arquivos_temp, disk, mixer, task, running,
          comandos, falhas, fila, abandonados, redraws, sweep>>

\* ---------------------------------------------------------------- the map

Cells(w, h) == (0..(w - 1)) \X (0..(h - 1))

InBounds(c) == 0 <= c[1] /\ c[1] < largura /\ 0 <= c[2] /\ c[2] < altura

\* adicionar_prateleiras: for x in range(2, largura - 2, 3),
\* for y in range(1, altura - 1).
Shelves(w, h) ==
  {c \in Cells(w, h) : /\ c[1] >= 2 /\ c[1] < w - 2 /\ (c[1] - 2) % 3 = 0
                       /\ c[2] >= 1 /\ c[2] < h - 1}

\* A phrase is a sequence of symbols; a name is contained in a phrase when
\* it occurs in it as a contiguous run (Python's `nome in comando`).
Contains(frase, nome) ==
  \E k \in 0..(Len(frase) - Len(nome)) :
    \A j \in 1..Len(nome) : frase[k + j] = nome[j]

Sair == <<"sair">>

\* self.produtos in configuration order (dict insertion order).  Like the
\* program's products, both lie on shelf cells.
Produtos ==
  << [nome |-> <<"arroz">>,  coords |-> <<2, 1>>],
     [nome |-> <<"feijao">>, coords |-> <<2, 2>>] >>

\* What the recognizer may return: nothing, the exit phrase, a product,
\* a phrase that names nothing.
Frases ==
  { <<>>, <<"sair">>, <<"arroz">>, <<"quero", "feijao">>, <<"ola">> }

\* The neighbour order of lines 235 and 261.
Moves == << <<0, 1>>, <<0, -1>>, <<1, 0>>, <<-1, 0>> >>

Plus(c, d) == <<c[1] + d[1], c[2] + d[2]>>

\* Mutant of Livre: the shelf test of lines 239 and 269 is left out.
LivreSemPrateleiras(c) == InBounds(c)

Livre(c) == InBounds(c) /\ c \notin prateleiras

\* Lines 231-242: the scan for the first free neighbour of the product cell.
\* 0 when the scan finds none.
RECURSIVE ScanAdjacent(_, _)
\* Mutant of ScanAdjacent: the scan keeps the last free neighbour (the
\* `break` of line 242 is missing).
ScanAdjacentSemBreak(destino, k) ==
  IF k > Len(Moves) THEN 0
  ELSE LET resto == ScanAdjacent(destino, k + 1) IN
       IF resto # 0 THEN resto
       ELSE IF InBounds(Plus(destino, Moves[k]))
               /\ Plus(destino, Moves[k]) \notin prateleiras THEN k
       ELSE 0

ScanAdjacent(destino, k) ==
  IF k > Len(Moves) THEN 0
  ELSE IF Livre(Plus(destino, Moves[k])) THEN k
  ELSE ScanAdjacent(destino, k + 1)

\* Lines 263-273: the inner for loop over the moves of one dequeued entry.
RECURSIVE ExpandMoves(_, _, _, _, _)
ExpandMoves(k, cur, path_taken, queue, visited) ==
  IF k > Len(Moves) THEN [queue |-> queue, visited |-> visited]
  ELSE LET nxt == Plus(cur, Moves[k]) IN
       IF Livre(nxt) /\ nxt \notin visited
       THEN ExpandMoves(k + 1, cur, path_taken,
                        Append(queue, [cell |-> nxt,
                                       path |-> Append(path_taken, cur)]),
                        visited \cup {nxt})
       ELSE ExpandMoves(k + 1, cur, path_taken, queue, visited)

\* Lines 253-273: the while loop.  <<>> stands for path_found = None.
\* (The one-element sets bind the value of each loop turn once.)
RECURSIVE BFSLoop(_, _, _)
\* Mutant of BFSLoop: queue.pop() instead of queue.popleft() (depth first).
BFSLoopPop(queue, visited, final) ==
  IF queue = <<>> THEN <<>>
  ELSE LET h == queue[Len(queue)] IN
       IF h.cell = final THEN Append(h.path, h.cell)
       ELSE CHOOSE r \in
              {BFSLoop(e.queue, e.visited, final) :
                 e \in {ExpandMoves(1, h.cell, h.path,
                                    SubSeq(queue, 1, Len(queue) - 1),
                                    visited)}} : TRUE

BFSLoop(queue, visited, final) ==
  IF queue = <<>> THEN <<>>
  ELSE LET h == Head(queue) IN
       IF h.cell = final THEN Append(h.path, h.cell)
       ELSE CHOOSE r \in
              {BFSLoop(e.queue, e.visited, final) :
                 e \in {ExpandMoves(1, h.cell, h.path, Tail(queue),
                                    visited)}} : TRUE

\* Lines 248-258.
BFS(start, final) ==
  BFSLoop(<<[cell |-> start, path |-> <<>>]>>, {start}, final)

\* Mutant of DirectionText: the two tests on y are exchanged.
DirectionTextTrocado(prev, cur) ==
  IF cur[1] > prev[1] THEN "direita"
  ELSE IF cur[1] < prev[1] THEN "esquerda"
  ELSE IF cur[2] < prev[2] THEN "frente"
  ELSE IF cur[2] > prev[2] THEN "volte"
  ELSE ""

\* Lines 285-294: the cue of one transition.
DirectionText(prev, cur) ==
  IF cur[1] > prev[1] THEN "direita"
  ELSE IF cur[1] < prev[1] THEN "esquerda"
  ELSE IF cur[2] > prev[2] THEN "frente"
  ELSE IF cur[2] < prev[2] THEN "volte"
  ELSE ""

\* ------------------------------------------------------------ the tasks

\* The locals of one executar_assistente coroutine and of the calls it is in.
\*   pc         position in the code
\*   ret        where the caller continues when sintetizar_voz returns
\*   texto      the argument of the sintetizar_voz call in progress
\*   arquivo    audio_file of the call in progress
\*   erro       history: the last sintetizar_voz call ran its except branch
\*   comando    the phrase returned by the last ouvir_comando
\*   produto    index in Produtos of the product being guided to (0: none)
\*   destino    the argument of mover_para
\*   final      final_destination
\*   path, i    path_found and the index of the for loop (1-based)
\*   resultado  history: how the last planning ended
\*   bfs        history: the last planning ran the breadth-first search
\*   log        history: the stepping events of the current mover_para call
\*   atras      history: the calls waiting ahead when this one was made
IdleTask ==
  [pc |-> "idle", ret |-> "", texto |-> "", arquivo |-> NoFile,
   erro |-> FALSE, comando |-> <<>>, produto |-> 0, destino |-> <<0, 0>>, final |-> <<0, 0>>,
   path |-> <<>>, i |-> 0, resultado |-> "none", bfs |-> FALSE,
   log |-> <<>>, atras |-> 0]

NoMixer == [init |-> FALSE, file |-> NoFile, busy |-> FALSE, stuck |-> FALSE]

NoSweep == [called |-> FALSE, tracked |-> {}, tried |-> {}, done |-> FALSE]

\* The positions inside `async with self.audio_lock` (lines 158-174).
Section ==
  {"sv_synth", "sv_saving", "sv_play", "sv_poll", "sv_sleep", "rm_sleep",
   "sv_except", "sv_release"}

\* The positions of a sintetizar_voz call that has been made.
InSpeak == Section \cup {"sv_wait"}

\* __init__ (lines 17-67): the state after construction.
Init ==
  /\ iniciado = FALSE
  /\ closed = FALSE
  /\ largura = Largura
  /\ altura = Altura
  /\ prateleiras = {}
  /\ posicao_atual = <<0, 0>>
  /\ locked = FALSE
  /\ waiters = <<>>
  /\ arquivos_temp = {}
  /\ disk = {}
  /\ mixer = [NoMixer EXCEPT !.init = TRUE]
  /\ task = [t \in Tasks |-> IdleTask]
  /\ running = NoTask
  /\ comandos = 0
  /\ falhas = 0
  /\ fila = <<>>
  /\ abandonados = {}
  /\ redraws = <<>>
  /\ sweep = NoSweep

\* The loop is alive and no task holds it: a GUI callback or a ready task
\* may run.
LoopIdle == iniciado /\ ~closed /\ running = NoTask

\* Task t holds the loop.
Runs(t) == iniciado /\ ~closed /\ running = t

\* External events so far.
Eventos == Cardinality({t \in Tasks : task[t].pc # "idle"}) + comandos + falhas

\* The environment may still inject a failure.
PodeFalhar == falhas < MaxFalhas /\ Eventos < MaxEventos

\* A call of sintetizar_voz(texto) whose caller continues at ret.
Call(r, texto, ret) == [r EXCEPT !.pc = "sv_call", !.texto = texto, !.ret = ret]

Remove(seq, x) == SelectSeq(seq, LAMBDA y : y # x)

\* iniciar (lines 331-339): adicionar_prateleiras, desenhar_mapa, mainloop.
Iniciar ==
  /\ ~iniciado
  /\ iniciado' = TRUE
  /\ prateleiras' = Shelves(largura, altura)
  /\ redraws' = <<posicao_atual>>
  /\ UNCHANGED <<closed, largura, altura, posicao_atual, locked, waiters,
                 arquivos_temp, disk, mixer, task, running, comandos,
                 falhas, fila, sweep,
                 abandonados>>

\* _start_assistant_task (lines 69-74): the button creates one more task.
\* Nothing in it looks at the tasks that already exist.
StartAssistant ==
  /\ LoopIdle
  /\ Eventos < MaxEventos
  /\ \E t \in Tasks :
       /\ task[t].pc = "idle"
       /\ \A u \in Tasks : u < t => task[u].pc # "idle"
       /\ task' = [task EXCEPT ![t].pc = "created"]
  /\ UNCHANGED <<iniciado, closed, largura, altura, prateleiras,
                 posicao_atual, locked, waiters, arquivos_temp, disk, mixer,
                 running, comandos, falhas, fila, redraws, sweep,
                 abandonados>>

\* The temp files removed by a sweep that stops at `falha` (NoFile: no
\* removal fails) after having gone through the files of `antes`.
SweepRemoved(antes, falha) ==
  IF falha = NoFile THEN arquivos_temp \cap disk ELSE antes \cap disk

\* on_closing (lines 76-93).  os.remove is not guarded: when it raises, the
\* handler ends there, after mixer.quit and before janela.destroy.
OnClosing ==
  /\ LoopIdle
  /\ mixer' = NoMixer
  /\ \E falha \in {NoFile} \cup (arquivos_temp \cap disk) :
     \E antes \in SUBSET (arquivos_temp \ {falha}) :
       /\ falha = NoFile => antes = arquivos_temp
       /\ falha # NoFile => PodeFalhar
       /\ falhas' = IF falha = NoFile THEN falhas ELSE falhas + 1
       /\ disk' = disk \ SweepRemoved(antes, falha)
       /\ closed' = (falha = NoFile)
       /\ sweep' = [called |-> TRUE, tracked |-> arquivos_temp,
                    tried |-> antes \cup ({falha} \ {NoFile}),
                    done |-> falha = NoFile]
  /\ UNCHANGED <<iniciado, largura, altura, prateleiras, posicao_atual,
                 locked, waiters, arquivos_temp, task, running, comandos,
                 fila, redraws,
                 abandonados>>

\* ------------------------------------------------------- sintetizar_voz

\* asyncio.Lock.acquire takes the lock at once only when it is free and no
\* task waits for it; otherwise the caller joins the waiters and suspends.
\* Mutant of LockFree: sintetizar_voz without the lock.
LockFreeSempre == TRUE

LockFree == ~locked /\ waiters = <<>>

\* asyncio.Lock.release wakes the oldest waiter.
\* Mutant of WakeTarget: release wakes the newest waiter.
WakeTargetUltimo == waiters[Len(waiters)]

WakeTarget == Head(waiters)

\* File names in use: tracked, on disk, or held by a call in progress.
Used == arquivos_temp \cup disk \cup ({task[u].arquivo : u \in Tasks} \ {NoFile})

\* Calls that have not drawn their file name yet.
Pending == {u \in Tasks : task[u].pc \in {"sv_wait", "sv_synth"}}

\* uuid4 never repeats a name that is in use.
NewFile == CHOOSE f \in Arquivos : f \notin Used /\ \A g \in Arquivos : g < f => g \in Used

\* Line 157, `async with self.audio_lock`: entry.
SvAcquire(t) ==
  /\ Runs(t)
  /\ task[t].pc = "sv_call"
  /\ Cardinality(Used) + Cardinality(Pending) < MaxArquivos
  /\ IF LockFree
     THEN /\ locked' = TRUE
          /\ task' = [task EXCEPT ![t].pc = "sv_synth", ![t].erro = FALSE]
          /\ UNCHANGED <<waiters, running, fila>>
     ELSE /\ waiters' = Append(waiters, t)
          /\ fila' = Append(fila, t)
          /\ task' = [task EXCEPT ![t].pc = "sv_wait", ![t].erro = FALSE,
                                  ![t].atras = Len(fila)]
          /\ running' = NoTask
          /\ UNCHANGED locked
  /\ UNCHANGED <<iniciado, closed, largura, altura, prateleiras,
                 posicao_atual, arquivos_temp, disk, mixer, comandos, falhas,
                 redraws, sweep,
                 abandonados>>

\* Line 157: the waiter woken by release takes the lock and goes on.
SvWake(t) ==
  /\ LoopIdle
  /\ task[t].pc = "sv_wait"
  /\ ~locked /\ waiters # <<>> /\ t = WakeTarget
  /\ locked' = TRUE
  /\ waiters' = Remove(waiters, t)
  /\ fila' = Remove(fila, t)
  /\ task' = [task EXCEPT ![t].pc = "sv_synth"]
  /\ running' = t
  /\ UNCHANGED <<iniciado, closed, largura, altura, prateleiras,
                 posicao_atual, arquivos_temp, disk, mixer, comandos, falhas,
                 redraws, sweep,
                 abandonados>>

\* Lines 159-164: name the file, track it, start the synthesis and suspend
\* in `await communicate.save`.
SvSynth(t) ==
  /\ Runs(t)
  /\ task[t].pc = "sv_synth"
  /\ arquivos_temp' = arquivos_temp \cup {NewFile}
  /\ task' = [task EXCEPT ![t].pc = "sv_saving", ![t].arquivo = NewFile]
  /\ running' = NoTask
  /\ UNCHANGED <<iniciado, closed, largura, altura, prateleiras,
                 posicao_atual, locked, waiters, disk, mixer, comandos,
                 falhas, fila, redraws, sweep,
                 abandonados>>

\* Line 164: save returns (the file is written) or raises (the file may
\* have been created before the failure).
SvSaved(t) ==
  /\ LoopIdle
  /\ task[t].pc = "sv_saving"
  /\ running' = t
  /\ \/ /\ disk' = disk \cup {task[t].arquivo}
        /\ task' = [task EXCEPT ![t].pc = "sv_play"]
        /\ UNCHANGED falhas
     \/ /\ PodeFalhar
        /\ falhas' = falhas + 1
        /\ \E parcial \in BOOLEAN :
             disk' = IF parcial THEN disk \cup {task[t].arquivo} ELSE disk
        /\ task' = [task EXCEPT ![t].pc = "sv_except"]
  /\ UNCHANGED <<iniciado, closed, largura, altura, prateleiras,
                 posicao_atual, locked, waiters, arquivos_temp, mixer,
                 comandos, fila, redraws, sweep,
                 abandonados>>

\* Lines 166-167: load and play.  Both raise pygame.error when the mixer is
\* not initialized (after mixer.quit) or the file cannot be played.
SvPlay(t) ==
  /\ Runs(t)
  /\ task[t].pc = "sv_play"
  /\ \/ /\ ~mixer.init
        /\ task' = [task EXCEPT ![t].pc = "sv_except"]
        /\ UNCHANGED <<mixer, falhas>>
     \/ /\ mixer.init
        /\ PodeFalhar
        /\ falhas' = falhas + 1
        /\ task' = [task EXCEPT ![t].pc = "sv_except"]
        /\ UNCHANGED mixer
     \/ /\ mixer.init
        /\ \E stuck \in BOOLEAN :
             /\ stuck => PodeFalhar
             /\ falhas' = IF stuck THEN falhas + 1 ELSE falhas
             /\ mixer' = [init |-> TRUE, file |-> task[t].arquivo,
                          busy |-> TRUE, stuck |-> stuck]
        /\ task' = [task EXCEPT ![t].pc = "sv_poll"]
  /\ UNCHANGED <<iniciado, closed, largura, altura, prateleiras,
                 posicao_atual, locked, waiters, arquivos_temp, disk, running,
                 comandos, fila, redraws, sweep,
                 abandonados>>

\* Lines 169-172: one test of get_busy.  Busy: sleep 0.1 s and test again;
\* not busy: enter _remover_arquivo_seguro, which starts by sleeping 0.5 s.
\* Nothing counts the tests or measures the time waited.
SvPoll(t) ==
  /\ Runs(t)
  /\ task[t].pc = "sv_poll"
  /\ IF ~mixer.init
     THEN /\ task' = [task EXCEPT ![t].pc = "sv_except"]
          /\ UNCHANGED running
     ELSE /\ task' = [task EXCEPT ![t].pc =
                        IF mixer.busy THEN "sv_sleep" ELSE "rm_sleep"]
          /\ running' = NoTask
  /\ UNCHANGED <<iniciado, closed, largura, altura, prateleiras,
                 posicao_atual, locked, waiters, arquivos_temp, disk, mixer,
                 comandos, falhas, fila, redraws, sweep,
                 abandonados>>

\* Line 170: the sleep of 0.1 s is over.
SvSleepDone(t) ==
  /\ LoopIdle
  /\ task[t].pc = "sv_sleep"
  /\ task' = [task EXCEPT ![t].pc = "sv_poll"]
  /\ running' = t
  /\ UNCHANGED <<iniciado, closed, largura, altura, prateleiras,
                 posicao_atual, locked, waiters, arquivos_temp, disk, mixer,
                 comandos, falhas, fila, redraws, sweep,
                 abandonados>>

\* The playback collaborator: the music ends, unless it is stuck.
PlaybackEnds ==
  /\ iniciado /\ ~closed
  /\ mixer.busy /\ ~mixer.stuck
  /\ mixer' = [mixer EXCEPT !.busy = FALSE]
  /\ UNCHANGED <<iniciado, closed, largura, altura, prateleiras,
                 posicao_atual, locked, waiters, arquivos_temp, disk, task,
                 running, comandos, falhas, fila, redraws, sweep,
                 abandonados>>

\* _remover_arquivo_seguro after its sleep (lines 181-190), back in
\* sintetizar_voz at the end of the try block.  One attempt: whatever raises
\* (get_busy or unload without a mixer, os.remove) is printed, and the file
\* stays where it is, tracked.
RmDo(t) ==
  /\ LoopIdle
  /\ task[t].pc = "rm_sleep"
  /\ running' = t
  /\ task' = [task EXCEPT ![t].pc = "sv_release"]
  /\ LET f == task[t].arquivo IN
     \/ /\ f \notin disk
        /\ UNCHANGED <<mixer, disk, arquivos_temp, falhas, abandonados>>
     \/ /\ f \in disk /\ ~mixer.init
        /\ abandonados' = abandonados \cup {f}
        /\ UNCHANGED <<mixer, disk, arquivos_temp, falhas>>
     \/ /\ f \in disk /\ mixer.init
        /\ mixer' = [NoMixer EXCEPT !.init = TRUE]
        /\ \/ /\ disk' = disk \ {f}
              /\ arquivos_temp' = arquivos_temp \ {f}
              /\ UNCHANGED <<falhas, abandonados>>
           \/ /\ PodeFalhar
              /\ falhas' = falhas + 1
              /\ abandonados' = abandonados \cup {f}
              /\ UNCHANGED <<disk, arquivos_temp>>
  /\ UNCHANGED <<iniciado, closed, largura, altura, prateleiras,
                 posicao_atual, locked, waiters, comandos, fila, redraws,
                 sweep>>

\* Mutant of SvExcept: no except clause.  The exception leaves the `async
\* with` block, which releases the lock, and ends the task.
SvExceptPropaga(t) ==
  /\ Runs(t)
  /\ task[t].pc = "sv_except"
  /\ locked' = FALSE
  /\ task' = [task EXCEPT ![t].pc = "done", ![t].erro = TRUE]
  /\ running' = NoTask
  /\ UNCHANGED <<iniciado, closed, largura, altura, prateleiras,
                 posicao_atual, waiters, arquivos_temp, disk, mixer,
                 comandos, falhas, fila, abandonados, redraws, sweep>>

\* Lines 173-174: `except Exception` prints the error; nothing is re-raised
\* and the file of the failed call is left as it is.
SvExcept(t) ==
  /\ Runs(t)
  /\ task[t].pc = "sv_except"
  /\ task' = [task EXCEPT ![t].pc = "sv_release", ![t].erro = TRUE]
  /\ UNCHANGED <<iniciado, closed, largura, altura, prateleiras,
                 posicao_atual, locked, waiters, arquivos_temp, disk, mixer,
                 running, comandos, falhas, fila, redraws, sweep,
                 abandonados>>

\* The stepping log after the speak call of the task returns.
Spoken(log) ==
  IF log # <<>> /\ log[Len(log)][1] = "cue"
  THEN Append(log, <<"spoken", log[Len(log)][2], log[Len(log)][3]>>)
  ELSE log

\* The end of `async with`: the lock is released and the call returns to
\* its caller, which goes on without suspending.  A task whose coroutine
\* returns (after the farewell) gives the loop back.
SvRelease(t) ==
  /\ Runs(t)
  /\ task[t].pc = "sv_release"
  /\ locked' = FALSE
  /\ task' = [task EXCEPT ![t].pc = task[t].ret, ![t].ret = "",
                          ![t].arquivo = NoFile, ![t].atras = 0,
                          ![t].log = Spoken(task[t].log)]
  /\ running' = IF task[t].ret = "done" THEN NoTask ELSE t
  /\ UNCHANGED <<iniciado, closed, largura, altura, prateleiras,
                 posicao_atual, waiters, arquivos_temp, disk, mixer,
                 comandos, falhas, fila, redraws, sweep,
                 abandonados>>

\* --------------------------------------------------- executar_assistente

\* Line 311: the task starts and greets.
TaskStart(t) ==
  /\ LoopIdle
  /\ task[t].pc = "created"
  /\ task' = [task EXCEPT ![t] = Call(@, "ativado", "listen")]
  /\ running' = t
  /\ UNCHANGED <<iniciado, closed, largura, altura, prateleiras,
                 posicao_atual, locked, waiters, arquivos_temp, disk, mixer,
                 comandos, falhas, fila, redraws, sweep,
                 abandonados>>

\* Lines 320-326: the first product, in configuration order, whose name is
\* in the phrase.  0 when there is none.
RECURSIVE FirstProduct(_, _)
\* Mutant of FirstProduct: the `break` of line 326 is left out, the last
\* product named in the phrase wins.
FirstProductSemBreak(comando, k) ==
  IF k > Len(Produtos) THEN 0
  ELSE LET resto == FirstProduct(comando, k + 1) IN
       IF resto # 0 THEN resto
       ELSE IF Contains(comando, Produtos[k].nome) THEN k
       ELSE 0

FirstProduct(comando, k) ==
  IF k > Len(Produtos) THEN 0
  ELSE IF Contains(comando, Produtos[k].nome) THEN k
  ELSE FirstProduct(comando, k + 1)

\* The phrases the user may still say: any, until the events of the run
\* are used up; from then on the user only ends the session.
Ouvidas ==
  IF comandos < MaxComandos /\ Eventos < MaxEventos THEN Frases ELSE {Sair}

\* Mutant of Ouvir: the `break` of line 317 is left out, the loop listens
\* again after the farewell.
OuvirSemBreak(t, comando) ==
  LET k == FirstProduct(comando, 1)
      r == [task[t] EXCEPT !.comando = comando]
  IN task' = [task EXCEPT ![t] =
       IF Contains(comando, Sair) THEN Call(r, "saindo", "listen")
       ELSE IF k # 0
         THEN Call([r EXCEPT !.produto = k, !.destino = Produtos[k].coords],
                   "encontrado", "mover_para")
       ELSE IF comando # <<>> THEN Call(r, "nao_encontrado", "listen")
       ELSE r]

\* Lines 314-329: one turn of the while loop up to its first await, for
\* the phrase that ouvir_comando returns ("" for every recognition error).
\* The exit test comes first, then the products in configuration order;
\* an empty phrase goes back to line 314 without a word.
Ouvir(t, comando) ==
  LET k == FirstProduct(comando, 1)
      r == [task[t] EXCEPT !.comando = comando]
  IN task' = [task EXCEPT ![t] =
       IF Contains(comando, Sair) THEN Call(r, "saindo", "done")
       ELSE IF k # 0
         THEN Call([r EXCEPT !.produto = k, !.destino = Produtos[k].coords],
                   "encontrado", "mover_para")
       ELSE IF comando # <<>> THEN Call(r, "nao_encontrado", "listen")
       ELSE r]

\* ouvir_comando blocks the loop until the recognizer returns.
Listen(t) ==
  /\ Runs(t)
  /\ task[t].pc = "listen"
  /\ comandos' = IF Ouvidas = Frases THEN comandos + 1 ELSE comandos
  /\ \E comando \in Ouvidas : Ouvir(t, comando)
  /\ UNCHANGED <<iniciado, closed, largura, altura, prateleiras,
                 posicao_atual, locked, waiters, arquivos_temp, disk, mixer,
                 running, falhas, fila, redraws, sweep,
                 abandonados>>

\* ------------------------------------------------------------ mover_para

\* Lines 226-277: the planning of mover_para, from the position at the
\* time of the call.  The search is not run when the product cell is a
\* shelf with no free neighbour.
Planejar(start, destino) ==
  LET k == IF destino \in prateleiras THEN ScanAdjacent(destino, 1) ELSE 0
      final == IF destino \in prateleiras /\ k # 0
               THEN Plus(destino, Moves[k]) ELSE destino
  IN IF destino \in prateleiras /\ k = 0
     THEN [resultado |-> "NoAccessibleCell", final |-> final,
           path |-> <<>>, bfs |-> FALSE]
     ELSE LET path_found == BFS(start, final) IN
          [resultado |-> IF path_found = <<>> THEN "NoPathFound"
                         ELSE "PathFound",
           final |-> final, path |-> path_found, bfs |-> TRUE]

\* Mutant of MoverPara: a failed planning returns without a word (the
\* awaits of lines 244 and 276 are left out).
MoverParaSemDesculpa(t) ==
  /\ Runs(t)
  /\ task[t].pc = "mover_para"
  /\ \E p \in {Planejar(posicao_atual, task[t].destino)} :
       LET r == [task[t] EXCEPT !.final = p.final, !.path = p.path,
                                !.resultado = p.resultado, !.bfs = p.bfs,
                                !.i = 2, !.log = <<>>]
       IN task' = [task EXCEPT ![t] =
            IF p.resultado = "PathFound" THEN [r EXCEPT !.pc = "step"]
            ELSE [r EXCEPT !.pc = "mover_ret"]]
  /\ UNCHANGED <<iniciado, closed, largura, altura, prateleiras,
                 posicao_atual, locked, waiters, arquivos_temp, disk, mixer,
                 running, comandos, falhas, fila, redraws, sweep,
                 abandonados>>

\* Lines 226-280: mover_para up to its first await, or to the head of the
\* for loop.
MoverPara(t) ==
  /\ Runs(t)
  /\ task[t].pc = "mover_para"
  /\ \E p \in {Planejar(posicao_atual, task[t].destino)} :
       LET r == [task[t] EXCEPT !.final = p.final, !.path = p.path,
                                !.resultado = p.resultado, !.bfs = p.bfs,
                                !.i = 2, !.log = <<>>]
       IN task' = [task EXCEPT ![t] =
            CASE p.resultado = "NoAccessibleCell" ->
                   Call(r, "sem_acesso", "mover_ret")
              [] p.resultado = "NoPathFound" ->
                   Call(r, "sem_caminho", "mover_ret")
              [] OTHER -> [r EXCEPT !.pc = "step"]]
  /\ UNCHANGED <<iniciado, closed, largura, altura, prateleiras,
                 posicao_atual, locked, waiters, arquivos_temp, disk, mixer,
                 running, comandos, falhas, fila, redraws, sweep,
                 abandonados>>

\* Mutant of Step: the position is updated before the cue is spoken
\* (lines 299 and 297 exchanged).
StepPosicaoAntes(t) ==
  /\ Runs(t)
  /\ task[t].pc = "step"
  /\ LET r == task[t]
         i == r.i
     IN IF i <= Len(r.path)
        THEN /\ posicao_atual' = r.path[i]
             /\ task' = [task EXCEPT ![t] =
                  Call([r EXCEPT !.log = Append(Append(r.log,
                          <<"pos", i, r.path[i]>>),
                          <<"cue", i, DirectionText(r.path[i - 1], r.path[i])>>)],
                       DirectionText(r.path[i - 1], r.path[i]), "redraw")]
        ELSE /\ task' = [task EXCEPT ![t] = Call(r, "chegou_destino", "mover_ret")]
             /\ UNCHANGED posicao_atual
  /\ UNCHANGED <<iniciado, closed, largura, altura, prateleiras, locked,
                 waiters, arquivos_temp, disk, mixer, running, comandos,
                 falhas, fila, abandonados, redraws, sweep>>

\* Lines 280-297 and 303: the head of the for loop.  Inside the path: the
\* cue of the transition is spoken first.  Past its end: the arrival cue.
Step(t) ==
  /\ Runs(t)
  /\ task[t].pc = "step"
  /\ LET r == task[t]
         i == r.i
     IN task' = [task EXCEPT ![t] =
          IF i <= Len(r.path)
          THEN LET d == DirectionText(r.path[i - 1], r.path[i]) IN
               IF d # ""
               THEN Call([r EXCEPT !.log = Append(r.log, <<"cue", i, d>>)],
                         d, "update_pos")
               ELSE [r EXCEPT !.pc = "update_pos"]
          ELSE Call(r, "chegou_destino", "mover_ret")]
  /\ UNCHANGED <<iniciado, closed, largura, altura, prateleiras,
                 posicao_atual, locked, waiters, arquivos_temp, disk, mixer,
                 running, comandos, falhas, fila, redraws, sweep,
                 abandonados>>

\* Line 299: the position moves to the cell of the step.
UpdatePos(t) ==
  /\ Runs(t)
  /\ task[t].pc = "update_pos"
  /\ posicao_atual' = task[t].path[task[t].i]
  /\ task' = [task EXCEPT ![t].pc = "redraw",
                          ![t].log = Append(@, <<"pos", task[t].i,
                                                 posicao_atual'>>)]
  /\ UNCHANGED <<iniciado, closed, largura, altura, prateleiras, locked,
                 waiters, arquivos_temp, disk, mixer, running, comandos,
                 falhas, fila, redraws, sweep,
                 abandonados>>

\* Lines 300-301: desenhar_mapa draws the current position, then the task
\* suspends in the pacing sleep of 0.5 s.
Redraw(t) ==
  /\ Runs(t)
  /\ task[t].pc = "redraw"
  /\ redraws' = <<posicao_atual>>
  /\ task' = [task EXCEPT ![t].pc = "pacing",
                          ![t].log = Append(@, <<"redraw", task[t].i,
                                                 posicao_atual>>)]
  /\ running' = NoTask
  /\ UNCHANGED <<iniciado, closed, largura, altura, prateleiras,
                 posicao_atual, locked, waiters, arquivos_temp, disk, mixer,
                 comandos, falhas, fila, sweep,
                 abandonados>>

\* Line 301: the pacing sleep is over; the for loop goes to its next index.
PaceDone(t) ==
  /\ LoopIdle
  /\ task[t].pc = "pacing"
  /\ task' = [task EXCEPT ![t].pc = "step", ![t].i = @ + 1]
  /\ running' = t
  /\ UNCHANGED <<iniciado, closed, largura, altura, prateleiras,
                 posicao_atual, locked, waiters, arquivos_temp, disk, mixer,
                 comandos, falhas, fila, redraws, sweep,
                 abandonados>>

\* Line 324: mover_para has returned, whatever its outcome; the product cue
\* is spoken and the loop goes back to listening.
MoverRet(t) ==
  /\ Runs(t)
  /\ task[t].pc = "mover_ret"
  /\ task' = [task EXCEPT ![t] = Call(@, "chegou_produto", "listen")]
  /\ UNCHANGED <<iniciado, closed, largura, altura, prateleiras,
                 posicao_atual, locked, waiters, arquivos_temp, disk, mixer,
                 running, comandos, falhas, fila, redraws, sweep,
                 abandonados>>

\* ------------------------------------------------------ the specification

TaskStep(t) ==
  \/ TaskStart(t)
  \/ SvAcquire(t)
  \/ SvWake(t)
  \/ SvSynth(t)
  \/ SvSaved(t)
  \/ SvPlay(t)
  \/ SvPoll(t)
  \/ SvSleepDone(t)
  \/ RmDo(t)
  \/ SvExcept(t)
  \/ SvRelease(t)
  \/ Listen(t)
  \/ MoverPara(t)
  \/ Step(t)
  \/ UpdatePos(t)
  \/ Redraw(t)
  \/ PaceDone(t)
  \/ MoverRet(t)

Next ==
  \/ Iniciar
  \/ StartAssistant
  \/ OnClosing
  \/ PlaybackEnds
  \/ \E t \in Tasks : TaskStep(t)

Spec == Init /\ [][Next]_vars

\* The scheduling of the code: the event loop runs every ready task (ready
\* callbacks are served first in, first out), and music that is not stuck
\* ends.  Nothing obliges the user to press a button or close the window.
FairSpec ==
  /\ Spec
  /\ \A t \in Tasks : WF_vars(TaskStep(t))
  /\ WF_vars(PlaybackEnds)

\* The path search as a function of its inputs: every grid of at most
\* MaxLado x MaxLado cells, every set of shelves, every start and every
\* product cell, with task 1 at the call of mover_para.
PathInit ==
  /\ iniciado = TRUE
  /\ closed = FALSE
  /\ largura \in 1..MaxLado
  /\ altura \in 1..MaxLado
  /\ prateleiras \in SUBSET Cells(largura, altura)
  /\ posicao_atual \in Cells(largura, altura)
  /\ locked = FALSE
  /\ waiters = <<>>
  /\ arquivos_temp = {}
  /\ disk = {}
  /\ mixer = [NoMixer EXCEPT !.init = TRUE]
  /\ \E d \in Cells(largura, altura) :
       task = [t \in Tasks |->
                 IF t = 1 THEN [IdleTask EXCEPT !.pc = "mover_para",
                                                !.produto = 1, !.destino = d]
                 ELSE IdleTask]
  /\ running = 1
  /\ comandos = 0
  /\ falhas = 0
  /\ fila = <<>>
  /\ abandonados = {}
  /\ redraws = <<posicao_atual>>
  /\ sweep = NoSweep

PathNext == \E t \in Tasks : MoverPara(t)

PathSpec == PathInit /\ [][PathNext]_vars

\* One guidance cycle as a function of its inputs: every grid of at most
\* MaxCelulas cells, every set of shelves, every start and every product
\* cell, with task 1 at the call of mover_para (line 323) and a user who
\* ends the session at the next listen.
GuiaInit ==
  /\ iniciado = TRUE
  /\ closed = FALSE
  /\ largura \in 1..MaxLado
  /\ altura \in 1..MaxLado
  /\ largura * altura <= MaxCelulas
  /\ prateleiras \in SUBSET Cells(largura, altura)
  /\ posicao_atual \in Cells(largura, altura)
  /\ locked = FALSE
  /\ waiters = <<>>
  /\ arquivos_temp = {}
  /\ disk = {}
  /\ mixer = [NoMixer EXCEPT !.init = TRUE]
  /\ \E d \in Cells(largura, altura) :
       task = [t \in Tasks |->
                 IF t = 1 THEN [IdleTask EXCEPT !.pc = "mover_para",
                                                !.produto = 1, !.destino = d]
                 ELSE IdleTask]
  /\ running = 1
  /\ comandos = MaxComandos
  /\ falhas = 0
  /\ fila = <<>>
  /\ abandonados = {}
  /\ redraws = <<posicao_atual>>
  /\ sweep = NoSweep

GuiaNext ==
  \/ PlaybackEnds
  \/ \E t \in Tasks :
       \/ SvAcquire(t)
       \/ SvSynth(t)
       \/ SvSaved(t)
       \/ SvPlay(t)
       \/ SvPoll(t)
       \/ SvSleepDone(t)
       \/ RmDo(t)
       \/ SvExcept(t)
       \/ SvRelease(t)
       \/ Listen(t)
       \/ MoverPara(t)
       \/ Step(t)
       \/ UpdatePos(t)
       \/ Redraw(t)
       \/ PaceDone(t)
       \/ MoverRet(t)

GuiaSpec == GuiaInit /\ [][GuiaNext]_vars

\* The words a phrase is made of.
Vocabulario == {"sair", "arroz", "feijao", "quero", "ola"}

\* Every phrase of at most MaxPalavras words.
TodasFrases == UNION {[1..n -> Vocabulario] : n \in 0..MaxPalavras}

\* The interpretation of a command as a function of the phrase: task 1 has
\* greeted and is at its first ouvir_comando (line 314).
InterpInit ==
  /\ iniciado = TRUE
  /\ closed = FALSE
  /\ largura = Largura
  /\ altura = Altura
  /\ prateleiras = Shelves(Largura, Altura)
  /\ posicao_atual = <<0, 0>>
  /\ locked = FALSE
  /\ waiters = <<>>
  /\ arquivos_temp = {}
  /\ disk = {}
  /\ mixer = [NoMixer EXCEPT !.init = TRUE]
  /\ task = [t \in Tasks |->
               IF t = 1 THEN [IdleTask EXCEPT !.pc = "listen",
                                              !.texto = "ativado"]
               ELSE IdleTask]
  /\ running = 1
  /\ comandos = 0
  /\ falhas = 0
  /\ fila = <<>>
  /\ abandonados = {}
  /\ redraws = <<posicao_atual>>
  /\ sweep = NoSweep

\* Lines 314-329 for any phrase.
Interpretar(t) ==
  /\ Runs(t)
  /\ task[t].pc = "listen"
  /\ \E comando \in TodasFrases : Ouvir(t, comando)
  /\ UNCHANGED <<iniciado, closed, largura, altura, prateleiras,
                 posicao_atual, locked, waiters, arquivos_temp, disk, mixer,
                 running, comandos, falhas, fila, redraws, sweep,
                 abandonados>>

InterpNext == \E t \in Tasks : Interpretar(t)

InterpSpec == InterpInit /\ [][InterpNext]_vars

\* ------------------------------------------------------------ the claims

Last(seq) == seq[Len(seq)]

Range(seq) == {seq[k] : k \in 1..Len(seq)}

\* Task t goes from outside the section of audio_lock to inside it.
Enters(t) == task[t].pc \notin Section /\ task'[t].pc \in Section

\* Task t goes from inside the section of audio_lock to outside it.
Leaves(t) == task[t].pc \in Section /\ task'[t].pc \notin Section

\* C1: in every reachable state at most one sintetizar_voz call is inside
\* the section guarded by audio_lock (synthesis, playback, removal).
C1_MutualExclusion ==
  Cardinality({t \in Tasks : task[t].pc \in Section}) <= 1

\* One call is waiting for the music to end while another call waits for
\* the lock.
C1_Witness ==
  \E t, u \in Tasks :
    task[t].pc = "sv_sleep" /\ mixer.busy /\ task[u].pc = "sv_wait"

\* C2: calls enter the section in the order they were made: a call enters
\* only when no earlier call is still waiting and no other call is inside.
C2_InvocationOrder ==
  [][\A t \in Tasks :
       Enters(t) =>
         /\ fila = <<>> \/ Head(fila) = t
         /\ \A u \in Tasks \ {t} : task[u].pc \notin Section]_vars

\* A call that was made while another one was already waiting is playing.
C2_Witness ==
  \E t \in Tasks : task[t].pc = "sv_sleep" /\ task[t].atras >= 1

\* C3: a call whose synthesis or playback failed returns like any other:
\* to the continuation of its caller, with the lock released, the step cue
\* counted as spoken and the task still holding the loop.
C3_FailureContained ==
  [][\A t \in Tasks :
       /\ task[t].pc = "sv_except" => task'[t].pc \in Section
       /\ Leaves(t) =>
            /\ task'[t].pc = task[t].ret
            /\ ~locked'
            /\ task[t].ret # "done" => running' = t
            /\ task[t].ret = "update_pos" =>
                 Last(task'[t].log)[1] = "spoken"]_vars

\* The cue of a step failed and the controller is at the position update.
C3_Witness ==
  \E t \in Tasks : task[t].erro /\ task[t].pc = "update_pos" /\ ~locked

\* The run has used up the file names of the model.
Esgotado == Cardinality(Used) + Cardinality(Pending) >= MaxArquivos

\* C4: every sintetizar_voz call that has been made comes to its end, also
\* when the music stays busy for ever (unless the window is closed first,
\* or the run leaves the bounds of the model).
C4_SpeakCompletes ==
  \A t \in Tasks :
    (task[t].pc \in InSpeak) ~>
      (task[t].pc \notin InSpeak \/ closed \/ Esgotado)

\* C5: a temp file whose call has ended is deleted (no longer on disk) or
\* its removal was attempted and failed; no other file stays tracked.
C5_ArtifactsTerminal ==
  \A f \in arquivos_temp :
    \/ \E t \in Tasks : task[t].pc \in Section /\ task[t].arquivo = f
    \/ f \notin disk
    \/ f \in abandonados

\* C6: once on_closing has been called, every tracked temp file has been
\* gone through and the shutdown has run to its end.
C6_ShutdownCompletes ==
  sweep.called => sweep.done /\ closed /\ sweep.tried = sweep.tracked

Abs(x) == IF x < 0 THEN -x ELSE x

Manhattan(a, b) == Abs(a[1] - b[1]) + Abs(a[2] - b[2])

\* The task whose planning found a path, right after the planning.
Planned(t) == task[t].pc = "step" /\ task[t].resultado = "PathFound"

\* C7: a path returned by the search is not empty, starts at the current
\* position, moves between 4-adjacent cells, stays inside the grid and,
\* past its first cell, off the shelves.
C7_PathWellFormed ==
  \A t \in Tasks :
    Planned(t) =>
      LET p == task[t].path IN
      /\ Len(p) >= 1
      /\ p[1] = posicao_atual
      /\ \A k \in 1..(Len(p) - 1) : Manhattan(p[k], p[k + 1]) = 1
      /\ \A k \in 1..Len(p) : p[k] \in Cells(largura, altura)
      /\ \A k \in 2..Len(p) : p[k] \notin prateleiras

\* A path that goes around shelves: longer than the Manhattan distance.
C7_Witness ==
  \E t \in Tasks :
    /\ Planned(t)
    /\ Len(task[t].path) > Manhattan(posicao_atual, Last(task[t].path)) + 1

\* The cells that n moves through free cells can reach from the current
\* position.
RECURSIVE Ate(_)
Ate(n) ==
  IF n = 0 THEN {posicao_atual}
  ELSE LET A == Ate(n - 1) IN
       A \cup {c \in Cells(largura, altura) :
                 c \notin prateleiras /\ \E a \in A : Manhattan(a, c) = 1}

\* C8: the returned path is a shortest one: its last cell cannot be reached
\* in fewer moves; on a grid without shelves it has Manhattan distance + 1
\* cells.
C8_ShortestPath ==
  \A t \in Tasks :
    Planned(t) =>
      LET p == task[t].path IN
      /\ Len(p) >= 2 => Last(p) \notin Ate(Len(p) - 2)
      /\ prateleiras = {} => Len(p) = Manhattan(posicao_atual, Last(p)) + 1

\* On the empty 3 x 3 grid, from (0,0) to (2,2): five cells.
C8_Witness ==
  \E t \in Tasks :
    /\ Planned(t)
    /\ largura = 3 /\ altura = 3 /\ prateleiras = {}
    /\ posicao_atual = <<0, 0>> /\ task[t].destino = <<2, 2>>
    /\ Len(task[t].path) = 5

\* The neighbours of a cell in the scan order (0,+1), (0,-1), (+1,0), (-1,0).
Vizinhos(c) ==
  << <<c[1], c[2] + 1>>, <<c[1], c[2] - 1>>,
     <<c[1] + 1, c[2]>>, <<c[1] - 1, c[2]>> >>

Acessivel(c) == c \in Cells(largura, altura) /\ c \notin prateleiras

\* C9: once planned, the effective goal is the product cell when it is no
\* shelf, else its first free neighbour in the scan order; a returned path
\* ends at the effective goal; with no free neighbour the planning ends in
\* NoAccessibleCell without running the search.
C9_GoalSubstitution ==
  \A t \in Tasks :
    task[t].resultado # "none" =>
      LET d == task[t].destino
          v == Vizinhos(d)
      IN /\ d \notin prateleiras => task[t].final = d
         /\ \A k \in 1..4 :
              (/\ d \in prateleiras
               /\ Acessivel(v[k])
               /\ \A j \in 1..(k - 1) : ~Acessivel(v[j]))
              => task[t].final = v[k] /\ task[t].resultado # "NoAccessibleCell"
         /\ (d \in prateleiras /\ \A k \in 1..4 : ~Acessivel(v[k]))
              => /\ task[t].resultado = "NoAccessibleCell"
                 /\ ~task[t].bfs
                 /\ task[t].path = <<>>
         /\ task[t].resultado = "NoAccessibleCell"
              => (d \in prateleiras /\ \A k \in 1..4 : ~Acessivel(v[k]))
         /\ task[t].resultado = "PathFound"
              => task[t].bfs /\ Last(task[t].path) = task[t].final

\* The product is on a shelf whose first two neighbours are not free and
\* whose last two are: the third is the goal of the path found.
C9_Witness ==
  \E t \in Tasks :
    LET v == Vizinhos(task[t].destino) IN
    /\ Planned(t)
    /\ task[t].destino \in prateleiras
    /\ ~Acessivel(v[1]) /\ ~Acessivel(v[2])
    /\ Acessivel(v[3]) /\ Acessivel(v[4])
    /\ Last(task[t].path) = v[3]

Ordem == <<"cue", "spoken", "pos", "redraw">>

\* C10: while a path is followed, the events of its steps come in the order
\* cue of step i announced, cue of step i completed, position set to path
\* cell i, redraw of path cell i, then the same for step i + 1; the position
\* is path cell i between the setting and the next one.
C10_StepOrder ==
  \A t \in Tasks :
    LET r == task[t] IN
    /\ \A k \in 1..Len(r.log) :
         /\ r.log[k][1] = Ordem[((k - 1) % 4) + 1]
         /\ r.log[k][2] = 2 + ((k - 1) \div 4)
         /\ r.log[k][2] <= Len(r.path)
         /\ r.log[k][1] \in {"cue", "spoken"}
              => r.log[k][3] = DirectionText(r.path[r.log[k][2] - 1],
                                             r.path[r.log[k][2]])
         /\ r.log[k][1] \in {"pos", "redraw"}
              => r.log[k][3] = r.path[r.log[k][2]]
    /\ r.pc = "redraw" => /\ Len(r.log) % 4 = 3
                          /\ posicao_atual = r.path[r.i]
                          /\ Last(r.log)[2] = r.i
    /\ r.pc = "update_pos" => Len(r.log) % 4 = 2 /\ Last(r.log)[2] = r.i
    /\ (r.pc = "step" /\ r.resultado = "PathFound")
         => Len(r.log) = 4 * (r.i - 2)

\* Two whole steps were walked, the last of them with a failed cue.
C10_Witness ==
  \E t \in Tasks :
    /\ Len(task[t].log) >= 8
    /\ task[t].erro
    /\ task[t].pc = "pacing"

Falhou(t) == task[t].resultado \in {"NoPathFound", "NoAccessibleCell"}

Desculpa(t) ==
  IF task[t].resultado = "NoAccessibleCell" THEN "sem_acesso" ELSE "sem_caminho"

\* Task t is between a failed planning and the next listen.
CicloFalho(t) ==
  /\ Falhou(t)
  /\ task[t].pc \in InSpeak \cup {"sv_call", "mover_ret"}
  /\ task[t].texto \in {"sem_acesso", "sem_caminho", "chegou_produto"}

\* C11: a planning that fails (NoPathFound, NoAccessibleCell) is followed by
\* the apology cue; from there the controller goes back to listening
\* without stepping, and none of its steps changes the current position.
C11_FailedPlanning ==
  [][\A t \in Tasks :
       /\ (task[t].pc = "mover_para" /\ task'[t] # task[t] /\ Falhou(t)')
            => /\ task'[t].pc = "sv_call"
               /\ task'[t].texto = Desculpa(t)'
               /\ task'[t].ret = "mover_ret"
               /\ posicao_atual' = posicao_atual
       /\ (CicloFalho(t) /\ task'[t] # task[t])
            => /\ posicao_atual' = posicao_atual
               /\ task'[t].pc \in InSpeak \cup {"sv_call", "mover_ret", "listen"}
               /\ task'[t].path = <<>>]_vars

\* The controller listens again after an apology for a search that found
\* no path, where it stood before.
C11_Witness ==
  \E t \in Tasks :
    /\ task[t].resultado = "NoPathFound"
    /\ task[t].pc = "listen"
    /\ posicao_atual = redraws[1]

\* The cues that tell the user of an arrival: line 303 (the destination)
\* and line 324 (the product).
Chegadas == {"chegou_destino", "chegou_produto"}

Ouve(t) ==
  /\ running = t
  /\ task[t].pc = "listen"
  /\ comandos' # comandos \/ task'[t] # task[t]

\* C13: when the recognized phrase is empty the controller announces the
\* retry cue and listens again; it plans nothing, runs no search and leaves
\* the current position alone.
C13_EmptyPhraseReprompt ==
  [][\A t \in Tasks :
       (Ouve(t) /\ task'[t].comando = <<>>)
         => /\ task'[t].pc = "sv_call"
            /\ task'[t].texto = "nao_encontrado"
            /\ task'[t].ret = "listen"
            /\ posicao_atual' = posicao_atual
            /\ task'[t].resultado = task[t].resultado
            /\ task'[t].path = task[t].path]_vars

\* Task t is in its farewell: from the exit phrase to the end of its cue.
Despedida(t) ==
  task[t].pc \in InSpeak \cup {"sv_call"} /\ task[t].texto = "saindo"

\* C14: a phrase with the exit intent makes the controller announce the
\* farewell and end; during the farewell it neither listens, plans nor
\* moves, and once ended it never takes another step.
C14_ExitTerminal ==
  [][\A t \in Tasks :
       /\ (Ouve(t) /\ Contains(task'[t].comando, Sair))
            => /\ task'[t].pc = "sv_call"
               /\ task'[t].texto = "saindo"
               /\ task'[t].ret = "done"
               /\ posicao_atual' = posicao_atual
       /\ (Despedida(t) /\ task'[t] # task[t])
            => /\ Despedida(t)' \/ task'[t].pc = "done"
               /\ posicao_atual' = posicao_atual
               /\ task'[t].path = task[t].path
       /\ task[t].pc = "done"
            => task'[t] = task[t] /\ running' # t /\ t \notin Range(waiters')]_vars

\* A controller has ended after its farewell while another one is still
\* guiding.
C14_Witness ==
  \E t, u \in Tasks :
    /\ task[t].pc = "done" /\ task[t].texto = "saindo"
    /\ task[u].pc = "pacing"

\* C15: once the window close has been handled the guidance is over: no
\* controller takes another step (no cue is started, no planning, no
\* listening), the current position stays where it is, and nothing plays.
C15_StopAborts ==
  [][sweep.called =>
       /\ task' = task
       /\ posicao_atual' = posicao_atual
       /\ ~mixer'.busy]_vars

\* The world-frame mapping of a move between two cells.
Mapa(a, b) ==
  CASE b = <<a[1] + 1, a[2]>> -> "direita"
    [] b = <<a[1] - 1, a[2]>> -> "esquerda"
    [] b = <<a[1], a[2] + 1>> -> "frente"
    [] b = <<a[1], a[2] - 1>> -> "volte"
    [] OTHER -> "nenhum"

\* The directional cues that task t has issued for its path, in order.
Cues(t) == SelectSeq(task[t].log, LAMBDA e : e[1] = "cue")

\* Task t is inside a mover_para call whose planning found a path.
Guiando(t) ==
  /\ task[t].resultado = "PathFound"
  /\ \/ task[t].pc \in {"step", "update_pos", "redraw", "pacing", "mover_ret"}
     \/ /\ task[t].pc \in InSpeak \cup {"sv_call"}
        /\ task[t].ret \in {"update_pos", "mover_ret"}

Tem(c, w) == \E j \in 1..Len(c) : c[j] = w

\* C17: the exit phrase wins over every product name; otherwise the first
\* product, in configuration order, whose name is in the phrase is the one
\* guided to, and only that one; otherwise a phrase that is not empty gets
\* the not-found cue.
C17_Interpretation ==
  \A t \in Tasks :
    LET r == task[t]
        c == r.comando
        Nomeia(k) == Tem(c, Produtos[k].nome[1])
    IN /\ Tem(c, "sair")
            => r.pc = "sv_call" /\ r.texto = "saindo" /\ r.ret = "done"
                 /\ r.produto = 0
       /\ \A k \in 1..Len(Produtos) :
            (~Tem(c, "sair") /\ Nomeia(k) /\ \A j \in 1..(k - 1) : ~Nomeia(j))
              => /\ r.pc = "sv_call" /\ r.texto = "encontrado"
                 /\ r.ret = "mover_para"
                 /\ r.produto = k /\ r.destino = Produtos[k].coords
       /\ (c # <<>> /\ ~Tem(c, "sair")
             /\ \A k \in 1..Len(Produtos) : ~Nomeia(k))
            => r.pc = "sv_call" /\ r.texto = "nao_encontrado"
                 /\ r.ret = "listen" /\ r.produto = 0

\* The phrase names the second product before the first one: the first
\* one in configuration order is guided to.
C17_Witness ==
  \E t \in Tasks :
    /\ task[t].comando = <<"quero", "feijao", "arroz">>
    /\ task[t].produto = 1
    /\ task[t].ret = "mover_para"

\* The executar_assistente tasks that were created and have not ended.
Ativas == {t \in Tasks : task[t].pc \notin {"idle", "done"}}

\* C18: however many times the start button is pressed, at most one
\* executar_assistente task is active.
C18_SingleLoop == Cardinality(Ativas) <= 1

\* C19: in every reachable state the current position is a cell of the
\* grid that holds no shelf.
C19_PositionFree ==
  /\ posicao_atual[1] \in 0..(largura - 1)
  /\ posicao_atual[2] \in 0..(altura - 1)
  /\ posicao_atual \notin prateleiras

\* The user stands between the shelves and the far wall, on the way around
\* the shelves from one product to the other.
C19_Witness ==
  /\ posicao_atual = <<3, 2>>
  /\ <<2, 2>> \in prateleiras
  /\ \E t \in Tasks : task[t].pc = "pacing" /\ task[t].produto = 1

\* C20: every change of the current position takes it to a 4-adjacent
\* cell, and a controller that announces the arrival cue of its path stands
\* on the effective goal of that path.
C20_NoJump ==
  [][/\ posicao_atual' # posicao_atual
          => Manhattan(posicao_atual, posicao_atual') = 1
     /\ \A t \in Tasks :
          (task[t].pc = "step" /\ task'[t].texto = "chegou_destino"
             /\ task'[t].pc = "sv_call")
            => posicao_atual = task[t].final]_vars

====
